---------------------------- MODULE Spec2Model ----------------------------
(***************************************************************************)
(* ttk::HarmonicField (core/base/harmonicField/HarmonicField.cpp).         *)
(*                                                                         *)
(* A state machine of HarmonicField::execute: the build gates              *)
(* (TTK_ENABLE_EIGEN, TTK_ENABLE_OPENMP), the process-wide thread count of *)
(* the solver library, the constraint assembly, the choice of the solver,  *)
(* the solve, the status log, the (parallel) copy loop and the return.     *)
(* Instances are HarmonicField objects, each used by one caller thread.    *)
(* Arrays are indexed from 0, as in the source.                            *)
(***************************************************************************)
EXTENDS Integers, Sequences, FiniteSets

VARIABLES
  eigenEnabled,       \* build gate TTK_ENABLE_EIGEN
  openmpEnabled,      \* build gate TTK_ENABLE_OPENMP
  overflowIterative,  \* what this build's findBestSolver answers when the score overflows SimplexId
  callers,            \* the instances on which execute is called
  nbThreads,          \* the library's process-wide thread count (0: never set)
  lastSetter,         \* the instance whose call set nbThreads last (0: none)
  self,               \* per instance: the configuration fields of the object
  identifiers,        \* per instance: the array sources_ points to
  sf,                 \* per instance: the array constraints_ points to
  outputScalarField,  \* per instance: the memory outputScalarFieldPointer_ points to
  solverOracle,       \* per instance: what the library's solver computes for its system
  pc,                 \* per instance: the position of its execute call
  identifiersVec,     \* local: the distinct constraint vertices, ascending
  lap,                \* local: which laplacian was built
  constraints,        \* local: the constraint vector
  sm,                 \* local: the solving method
  penalty,            \* local: the penalty matrix
  res,                \* local: the solver status
  sol,                \* local: the solver solution
  pending,            \* the copy loop's iterations not yet executed
  msgs,               \* the messages the current call has logged
  ret,                \* the value the last call returned
  callCount,          \* calls of execute started on the instance
  solveLog,           \* the strategies solve was invoked with in the current call
  solveThreads,       \* the process-wide thread count the current call's solve ran under
  sfRead,             \* the indices of sf the current call has read
  writes,             \* per output slot, the writes of the current call
  results             \* per instance, what each returned call left behind

vars == << eigenEnabled, openmpEnabled, overflowIterative, callers, nbThreads,
           lastSetter, self, identifiers, sf, outputScalarField, solverOracle,
           pc, identifiersVec, lap, constraints, sm, penalty, res, sol, pending,
           msgs, ret, callCount, solveLog, solveThreads, sfRead, writes, results >>

-----------------------------------------------------------------------------
\* Bounds of the model.
MaxVertex == 3
MaxConstraints == 3
MaxLogAlpha == 1
MaxThreads == 2
MaxCalls == 2

\* Program constants.
threshold == 500000
SimplexIdMax == 2147483647

Instances == {1, 2}
SolvingMethodUserType == {"Auto", "Cholesky", "Iterative"}
SolvingMethodType == {"Cholesky", "Iterative"}
\* Eigen::ComputationInfo: Success, NumericalIssue, NoConvergence, InvalidInput
ComputationInfo == 0..3

-----------------------------------------------------------------------------
\* Helpers.

Size(f) == Cardinality(DOMAIN f)

Min(S) == CHOOSE x \in S : \A y \in S : x <= y

RECURSIVE pow10(_)
pow10(n) == IF n <= 0 THEN 1 ELSE 10 * pow10(n - 1)

\* std::vector built from a std::set: its elements in ascending order.
RECURSIVE SetToVec(_, _)
SetToVec(S, acc) ==
  IF S = {} THEN acc
  ELSE LET m == Min(S) IN
       SetToVec(S \ {m}, [i \in 0..Size(acc) |-> IF i < Size(acc) THEN acc[i] ELSE m])

EmptyVec == [i \in {} |-> 0]

-----------------------------------------------------------------------------
\* findBestSolver (lines 9-20).

\* 2 * edgeNumber_ + vertexNumber_ is not representable in SimplexId
\* (both counts are >= 0): a signed overflow, undefined behaviour.
ScoreOverflows(c) ==
  self[c].edgeNumber_ > (SimplexIdMax - self[c].vertexNumber_) \div 2

findBestSolver(c) ==
  IF ScoreOverflows(c)
    THEN (IF overflowIterative THEN "Iterative" ELSE "Cholesky")
    ELSE IF 2 * self[c].edgeNumber_ + self[c].vertexNumber_ > threshold
           THEN "Iterative"
           ELSE "Cholesky"

\* The switch on solvingMethod_ (lines 79-91).
SelectSolverByHeuristic(c) == findBestSolver(c)

SelectSolver(c) ==
  CASE self[c].solvingMethod_ = "Auto" -> findBestSolver(c)
    [] self[c].solvingMethod_ = "Cholesky" -> "Cholesky"
    [] self[c].solvingMethod_ = "Iterative" -> "Iterative"

-----------------------------------------------------------------------------
\* Constraint assembly (lines 54-61, 72-77, 93-103).

\* identifiersSet: the first constraintNumber_ entries of the id array.
IdentifiersSet(c) ==
  {identifiers[c][i] : i \in 0..(self[c].constraintNumber_ - 1)}

\* identifiersVec: the set's elements, ascending.
IdentifiersVec(c) == SetToVec(IdentifiersSet(c), EmptyVec)

\* The value put at identifiersVec[i].
PairedConstraintValue(c, i) ==
  sf[c][Min({j \in DOMAIN identifiers[c] : identifiers[c][j] = IdentifiersVec(c)[i]})]

ConstraintValue(c, i) == sf[c][i]

\* for(i = 0; i < identifiersVec.size(); i++) constraints.coeffRef(identifiersVec[i]) = sf[i]
RECURSIVE ConstraintsLoop(_, _, _, _)
ConstraintsLoop(c, vec, i, acc) ==
  IF i >= Size(vec) THEN acc
  ELSE ConstraintsLoop(c, vec, i + 1, [acc EXCEPT ![vec[i]] = ConstraintValue(c, i)])

\* SpVec constraints(vertexNumber_): all zero, then the loop.
ConstraintsVector(c) ==
  ConstraintsLoop(c, IdentifiersVec(c), 0,
                  [v \in 0..(self[c].vertexNumber_ - 1) |-> 0])

\* The indices of sf the loop reads.
ConstraintsRead(c) == 0..(Size(IdentifiersVec(c)) - 1)

\* const scalarFieldType alpha = pow10(logAlpha_)
Alpha(c) == pow10(self[c].logAlpha_)

\* The vertices a triplet is emplaced for.
TripletIdsRaw(c) ==
  [i \in 0..(self[c].constraintNumber_ - 1) |-> identifiers[c][i]]

TripletIds(c) == IdentifiersVec(c)

\* triplets: (i, i, alpha) for each i of identifiersVec.
Triplets(c) ==
  [k \in DOMAIN TripletIds(c) |-> << TripletIds(c)[k], TripletIds(c)[k], Alpha(c) >>]

RECURSIVE SumOver(_, _, _)
SumOver(ts, D, rc) ==
  IF D = {} THEN 0
  ELSE LET k == Min(D) IN
       (IF << ts[k][1], ts[k][2] >> = rc THEN ts[k][3] ELSE 0) + SumOver(ts, D \ {k}, rc)

\* Eigen's setFromTriplets: the entry at (r, c) is the sum of the triplets at (r, c).
SetFromTriplets(ts, n) ==
  [rc \in (0..(n - 1)) \X (0..(n - 1)) |-> SumOver(ts, DOMAIN ts, rc)]

PenaltyMatrix(c) == SetFromTriplets(Triplets(c), self[c].vertexNumber_)

\* Which laplacian is built (lines 63-70).
Laplacian(c) == IF self[c].useCotanWeights_ THEN "cotan" ELSE "discrete"

-----------------------------------------------------------------------------
\* The solve, the status log, the copy loop, the return (lines 105-190).

\* What solve<> computes for the system of instance c: the status info and the
\* solution x, one entry per vertex.
SolverOutcome(c) == solverOracle[c]

\* The instantiations of solve<> one call runs: the one switch(sm) selects.
SolveWithRetry(c) ==
  IF solverOracle[c].info = 0 THEN << sm[c] >>
  ELSE << sm[c], IF sm[c] = "Cholesky" THEN "Iterative" ELSE "Cholesky" >>

SolveInvocations(c) == << sm[c] >>

\* The message logged for the status res (lines 120-138).
StatusMessage(info) ==
  CASE info = 0 -> "Success!"
    [] info = 1 -> "Numerical Issue!"
    [] info = 2 -> "No Convergence!"
    [] info = 3 -> "Invalid Input!"

\* The iterations of for(i = 0; i < vertexNumber_; ++i).
LoopRangeFromOne(c) == 1..(self[c].vertexNumber_ - 1)

LoopRange(c) == 0..(self[c].vertexNumber_ - 1)

\* outputScalarField[i] = -solDense(i, 0)
CopiedValueNotNegated(c, i) == sol[c][i]

CopiedValue(c, i) == -sol[c][i]

\* The buffer an instance's loop writes: its own.
OutputOf(c) == c

\* Eigen::setNbThreads(threadNumber_)
KeepNbThreadsIfSet(c) ==
  IF nbThreads = 0 THEN self[c].threadNumber_ ELSE nbThreads

SetNbThreads(c) == self[c].threadNumber_

\* return 0
ReturnSolverStatus(c) == res[c]

ReturnValue(c) == 0

\* What a returned call leaves behind: its strategy, its constraint vector, its
\* penalty matrix and the caller's array.
Snapshot(c) ==
  [ sm |-> sm[c], constraints |-> constraints[c], penalty |-> penalty[c],
    output |-> [i \in 0..(self[c].vertexNumber_ - 1) |-> outputScalarField[c][i]] ]

\* The memory behind outputScalarFieldPointer_: the caller's array of
\* vertexNumber_ slots, and the slot after it.
Memory(c) == 0..self[c].vertexNumber_

\* What the caller may overwrite its array with between two calls.
PoisonValues == {7}

-----------------------------------------------------------------------------
\* Actions.

configVars == << eigenEnabled, openmpEnabled, overflowIterative, callers, self,
                 identifiers, sf, solverOracle >>

\* The caller calls execute on instance c: the locals are fresh.
Call(c) ==
  /\ c \in callers
  /\ pc[c] \in {"idle", "done"}
  /\ callCount[c] < MaxCalls
  /\ pc' = [pc EXCEPT ![c] = "begin"]
  /\ callCount' = [callCount EXCEPT ![c] = @ + 1]
  /\ identifiersVec' = [identifiersVec EXCEPT ![c] = EmptyVec]
  /\ lap' = [lap EXCEPT ![c] = "none"]
  /\ constraints' = [constraints EXCEPT ![c] = EmptyVec]
  /\ sm' = [sm EXCEPT ![c] = "Cholesky"]
  /\ penalty' = [penalty EXCEPT ![c] = EmptyVec]
  /\ res' = [res EXCEPT ![c] = 0]
  /\ sol' = [sol EXCEPT ![c] = EmptyVec]
  /\ pending' = [pending EXCEPT ![c] = {}]
  /\ msgs' = [msgs EXCEPT ![c] = << >>]
  /\ ret' = [ret EXCEPT ![c] = -1]
  /\ solveLog' = [solveLog EXCEPT ![c] = << >>]
  /\ solveThreads' = [solveThreads EXCEPT ![c] = 0]
  /\ sfRead' = [sfRead EXCEPT ![c] = {}]
  /\ writes' = [writes EXCEPT ![c] = [i \in Memory(c) |-> 0]]
  /\ UNCHANGED << configVars, nbThreads, lastSetter, outputScalarField, results >>

\* #ifdef TTK_ENABLE_EIGEN
EigenGateIgnored == TRUE

EigenGate == eigenEnabled

\* Lines 31-52 and 173-187: the build gate, setNbThreads, the first message.
Begin(c) ==
  /\ pc[c] = "begin"
  /\ IF EigenGate
       THEN /\ nbThreads' = IF openmpEnabled THEN SetNbThreads(c) ELSE nbThreads
            /\ lastSetter' = IF openmpEnabled THEN c ELSE lastSetter
            /\ msgs' = [msgs EXCEPT ![c] = Append(@, "Beginnning computation")]
            /\ pc' = [pc EXCEPT ![c] = "assemble"]
       ELSE /\ msgs' = [msgs EXCEPT ![c] = Append(@, "Eigen support disabled, computation skipped!")]
            /\ pc' = [pc EXCEPT ![c] = "return"]
            /\ UNCHANGED << nbThreads, lastSetter >>
  /\ UNCHANGED << configVars, outputScalarField, identifiersVec, lap, constraints,
                  sm, penalty, res, sol, pending, ret, callCount, solveLog,
                  solveThreads, sfRead, writes, results >>

\* Lines 54-103: the distinct ids, the laplacian, the constraint vector, the
\* solving method, the penalty matrix.
Assemble(c) ==
  /\ pc[c] = "assemble"
  /\ identifiersVec' = [identifiersVec EXCEPT ![c] = IdentifiersVec(c)]
  /\ lap' = [lap EXCEPT ![c] = Laplacian(c)]
  /\ constraints' = [constraints EXCEPT ![c] = ConstraintsVector(c)]
  /\ sfRead' = [sfRead EXCEPT ![c] = ConstraintsRead(c)]
  /\ sm' = [sm EXCEPT ![c] = SelectSolver(c)]
  /\ penalty' = [penalty EXCEPT ![c] = PenaltyMatrix(c)]
  /\ pc' = [pc EXCEPT ![c] = "solve"]
  /\ UNCHANGED << configVars, nbThreads, lastSetter, outputScalarField, res, sol,
                  pending, msgs, ret, callCount, solveLog, solveThreads, writes,
                  results >>

\* Lines 105-118: the solve, under the thread count the library holds now.
Solve(c) ==
  /\ pc[c] = "solve"
  /\ solveLog' = [solveLog EXCEPT ![c] = @ \o SolveInvocations(c)]
  /\ solveThreads' = [solveThreads EXCEPT ![c] = nbThreads]
  /\ res' = [res EXCEPT ![c] = SolverOutcome(c).info]
  /\ sol' = [sol EXCEPT ![c] = SolverOutcome(c).x]
  /\ pc' = [pc EXCEPT ![c] = "status"]
  /\ UNCHANGED << configVars, nbThreads, lastSetter, outputScalarField,
                  identifiersVec, lap, constraints, sm, penalty, pending, msgs,
                  ret, callCount, sfRead, writes, results >>

\* Lines 120-149: the status message, then the loop is entered.
LogStatus(c) ==
  /\ pc[c] = "status"
  /\ msgs' = [msgs EXCEPT ![c] = Append(@, StatusMessage(res[c]))]
  /\ pending' = [pending EXCEPT ![c] = LoopRange(c)]
  /\ pc' = [pc EXCEPT ![c] = "copy"]
  /\ UNCHANGED << configVars, nbThreads, lastSetter, outputScalarField,
                  identifiersVec, lap, constraints, sm, penalty, res, sol, ret,
                  callCount, solveLog, solveThreads, sfRead, writes, results >>

\* Lines 147-153: one iteration of the copy loop; with OpenMP the iterations
\* run in any order, without it in ascending order.
CopyIter(c) ==
  /\ pc[c] = "copy"
  /\ \E i \in pending[c] :
       /\ IF openmpEnabled THEN TRUE ELSE i = Min(pending[c])
       /\ outputScalarField' =
            [outputScalarField EXCEPT ![OutputOf(c)][i] = CopiedValue(c, i)]
       /\ writes' = [writes EXCEPT ![OutputOf(c)][i] = @ + 1]
       /\ pending' = [pending EXCEPT ![c] = @ \ {i}]
  /\ UNCHANGED << configVars, nbThreads, lastSetter, pc, identifiersVec, lap,
                  constraints, sm, penalty, res, sol, msgs, ret, callCount,
                  solveLog, solveThreads, sfRead, results >>

\* Lines 155-171: the loop has ended, the last message.
EndLoop(c) ==
  /\ pc[c] = "copy"
  /\ pending[c] = {}
  /\ msgs' = [msgs EXCEPT ![c] = Append(@, "Ending computation")]
  /\ pc' = [pc EXCEPT ![c] = "return"]
  /\ UNCHANGED << configVars, nbThreads, lastSetter, outputScalarField,
                  identifiersVec, lap, constraints, sm, penalty, res, sol,
                  pending, ret, callCount, solveLog, solveThreads, sfRead,
                  writes, results >>

\* Line 189: return 0.
Return(c) ==
  /\ pc[c] = "return"
  /\ ret' = [ret EXCEPT ![c] = ReturnValue(c)]
  /\ results' = [results EXCEPT ![c] = Append(@, Snapshot(c))]
  /\ pc' = [pc EXCEPT ![c] = "done"]
  /\ UNCHANGED << configVars, nbThreads, lastSetter, outputScalarField,
                  identifiersVec, lap, constraints, sm, penalty, res, sol,
                  pending, msgs, callCount, solveLog, solveThreads, sfRead,
                  writes >>

\* Between two calls the caller, who owns the output array, overwrites it.
Clobber(c) ==
  /\ c \in callers
  /\ pc[c] \in {"idle", "done"}
  /\ callCount[c] < MaxCalls
  /\ \E p \in PoisonValues :
       /\ \E i \in 0..(self[c].vertexNumber_ - 1) : outputScalarField[c][i] # p
       /\ outputScalarField' =
            [outputScalarField EXCEPT
               ![c] = [i \in Memory(c) |-> IF i < self[c].vertexNumber_ THEN p ELSE @[i]]]
  /\ pc' = [pc EXCEPT ![c] = "idle"]
  /\ UNCHANGED << configVars, nbThreads, lastSetter, identifiersVec, lap,
                  constraints, sm, penalty, res, sol, pending, msgs, ret,
                  callCount, solveLog, solveThreads, sfRead, writes, results >>

Next ==
  \E c \in Instances :
    \/ Call(c)
    \/ Begin(c)
    \/ Assemble(c)
    \/ Solve(c)
    \/ LogStatus(c)
    \/ CopyIter(c)
    \/ EndLoop(c)
    \/ Return(c)
    \/ Clobber(c)

-----------------------------------------------------------------------------
\* Initial states: the build, and per instance its configuration, its input
\* arrays and what the solver computes for its system.

SolutionValues == {-2, 1}
ConstraintValues == {4, 9}
\* Edge counts: small, around the threshold, and one whose score overflows.
EdgeNumbers == {3, 249998, 249999, 250000, 1073741823}

Setup(v, e, cn, cotan, method, la, t, ids, vals, info, x) ==
  [ config |-> [ vertexNumber_ |-> v, edgeNumber_ |-> e, constraintNumber_ |-> cn,
                 useCotanWeights_ |-> cotan, solvingMethod_ |-> method,
                 logAlpha_ |-> la, threadNumber_ |-> t ],
    identifiers |-> ids, sf |-> vals, oracle |-> [info |-> info, x |-> x] ]

\* Constraint vertices v-1, v-2, ... (descending, so unsorted) with values 4, 9, ...
SomeIds(v, cn) == [i \in 0..(cn - 1) |-> (v - 1 - (i % v))]
SomeValues(cn) == [i \in 0..(cn - 1) |-> IF i % 2 = 0 THEN 4 ELSE 9]
SomeSolution(v) == [i \in 0..(v - 1) |-> IF i % 2 = 0 THEN 1 ELSE -2]

\* An instance no caller uses.
IdleSetup ==
  Setup(1, 3, 0, TRUE, "Auto", 0, 1, EmptyVec, EmptyVec, 0, SomeSolution(1))

\* Sizes and solving methods vary.
SelectSetups ==
  { Setup(v, e, 1, TRUE, m, 0, 1, SomeIds(v, 1), SomeValues(1), 0, SomeSolution(v)) :
      v \in 1..MaxVertex, e \in EdgeNumbers, m \in SolvingMethodUserType }

\* The constraint arrays and the penalty exponent vary.
AssembleSetups ==
  UNION { UNION { { Setup(v, 3, cn, TRUE, "Auto", la, 1, ids, vals, 0, SomeSolution(v)) :
                      ids \in [0..(cn - 1) -> 0..(v - 1)],
                      vals \in [0..(cn - 1) -> ConstraintValues],
                      la \in {0, MaxLogAlpha} } :
                  cn \in 0..MaxConstraints } :
          v \in 1..MaxVertex }

\* The solver's outcome and the solving method vary.
SolveSetups ==
  UNION { { Setup(v, 250000, 2, cotan, m, 0, 1, SomeIds(v, 2), SomeValues(2), info, x) :
              cotan \in BOOLEAN, m \in SolvingMethodUserType,
              info \in ComputationInfo, x \in [0..(v - 1) -> SolutionValues] } :
          v \in 1..MaxVertex }

\* The thread counts vary; a two-vertex mesh.
ThreadSetups ==
  { Setup(2, 3, 1, TRUE, "Auto", 0, t, SomeIds(2, 1), SomeValues(1), 0, SomeSolution(2)) :
      t \in 1..MaxThreads }

InitFrom(cs, Setups, OpenMP, Overflow) ==
  /\ callers = cs
  /\ eigenEnabled \in BOOLEAN
  /\ openmpEnabled \in OpenMP
  /\ overflowIterative \in Overflow
  /\ \E f \in [cs -> Setups] :
       LET su(c) == IF c \in cs THEN f[c] ELSE IdleSetup IN
       /\ self = [c \in Instances |-> su(c).config]
       /\ identifiers = [c \in Instances |-> su(c).identifiers]
       /\ sf = [c \in Instances |-> su(c).sf]
       /\ solverOracle = [c \in Instances |-> su(c).oracle]
       /\ outputScalarField =
            [c \in Instances |-> [i \in 0..su(c).config.vertexNumber_ |-> 0]]
       /\ writes = [c \in Instances |-> [i \in 0..su(c).config.vertexNumber_ |-> 0]]
  /\ nbThreads = 0
  /\ lastSetter = 0
  /\ pc = [c \in Instances |-> "idle"]
  /\ identifiersVec = [c \in Instances |-> EmptyVec]
  /\ lap = [c \in Instances |-> "none"]
  /\ constraints = [c \in Instances |-> EmptyVec]
  /\ sm = [c \in Instances |-> "Cholesky"]
  /\ penalty = [c \in Instances |-> EmptyVec]
  /\ res = [c \in Instances |-> 0]
  /\ sol = [c \in Instances |-> EmptyVec]
  /\ pending = [c \in Instances |-> {}]
  /\ msgs = [c \in Instances |-> << >>]
  /\ ret = [c \in Instances |-> -1]
  /\ callCount = [c \in Instances |-> 0]
  /\ solveLog = [c \in Instances |-> << >>]
  /\ solveThreads = [c \in Instances |-> 0]
  /\ sfRead = [c \in Instances |-> {}]
  /\ results = [c \in Instances |-> << >>]

\* One instance, the solver's outcome varies.
Init == InitFrom({1}, SolveSetups, BOOLEAN, {FALSE})
Spec == Init /\ [][Next]_vars

\* One instance, the mesh size and the solving method vary.
InitSelect == InitFrom({1}, SelectSetups, BOOLEAN, BOOLEAN)
SpecSelect == InitSelect /\ [][Next]_vars

\* One instance, the constraints vary; a build without OpenMP.
InitAssemble == InitFrom({1}, AssembleSetups, {FALSE}, {FALSE})
SpecAssemble == InitAssemble /\ [][Next]_vars

\* Two instances, called concurrently by two threads.
InitConcurrent == InitFrom(Instances, ThreadSetups, BOOLEAN, {FALSE})
SpecConcurrent == InitConcurrent /\ [][Next]_vars

-----------------------------------------------------------------------------
\* Claims.

\* The call on c has chosen its solving method and assembled its system.
Assembled(c) ==
  eigenEnabled /\ pc[c] \in {"solve", "status", "copy", "return", "done"}

\* The call on c has run its solve.
Solved(c) == eigenEnabled /\ pc[c] \in {"status", "copy", "return", "done"}

\* 2 * edgeNumber + vertexNumber > 500000, over the integers.
ScoreAboveThreshold(c) ==
  self[c].edgeNumber_ > (threshold - self[c].vertexNumber_) \div 2

\* C1: with solvingMethod = Auto the strategy is Iterative exactly when
\* 2 * edgeNumber + vertexNumber > 500000, for every pair of sizes.
C1_AutoFollowsScore ==
  \A c \in callers :
    (Assembled(c) /\ self[c].solvingMethod_ = "Auto")
      => (sm[c] = "Iterative" <=> ScoreAboveThreshold(c))

\* C2: an explicitly requested strategy (Cholesky or Iterative) is the one
\* selected and the one the solver runs with, whatever the sizes are.
C2_ExplicitMethodHonoured ==
  \A c \in callers :
    (Assembled(c) /\ self[c].solvingMethod_ # "Auto")
      => /\ sm[c] = self[c].solvingMethod_
         /\ Solved(c) => solveLog[c] = << self[c].solvingMethod_ >>

\* A returned call that ran Cholesky, as requested, on a size above the threshold.
C2_Witness ==
  /\ pc[1] = "done" /\ eigenEnabled
  /\ self[1].solvingMethod_ = "Cholesky"
  /\ ScoreAboveThreshold(1)
  /\ solveLog[1] = << "Cholesky" >>

\* The distinct constrained vertices of the input array.
DistinctIds(c) ==
  {identifiers[c][i] : i \in 0..(self[c].constraintNumber_ - 1)}

\* The number of distinct ids below x: x's position in the ascending order.
Rank(c, x) == Cardinality({y \in DistinctIds(c) : y < x})

\* C3: the constraint vector holds at the k-th smallest distinct id the value
\* values[k], is zero at every other vertex, and only the values at positions
\* below the number of distinct ids are read.
C3_ConstraintByPosition ==
  \A c \in callers :
    Assembled(c)
      => /\ DOMAIN constraints[c] = 0..(self[c].vertexNumber_ - 1)
         /\ \A v \in DOMAIN constraints[c] :
              constraints[c][v] =
                IF v \in DistinctIds(c) THEN sf[c][Rank(c, v)] ELSE 0
         /\ sfRead[c] = 0..(Cardinality(DistinctIds(c)) - 1)

\* An unsorted id array with a duplicate: a vertex holds a value other than the
\* one paired with it in the input, and the last value is not read.
C3_Witness ==
  /\ Assembled(1)
  /\ \E i, j \in DOMAIN identifiers[1] : i < j /\ identifiers[1][i] > identifiers[1][j]
  /\ \E j \in DOMAIN identifiers[1] :
       constraints[1][identifiers[1][j]] # sf[1][j]
  /\ Cardinality(DistinctIds(1)) < self[1].constraintNumber_
  /\ (self[1].constraintNumber_ - 1) \notin sfRead[1]

\* C4: the penalty matrix is diagonal, with exactly alpha = 10^logAlpha at each
\* distinct constrained vertex (also one given several times) and zero elsewhere.
C4_PenaltyDiagonal ==
  \A c \in callers :
    Assembled(c)
      => /\ DOMAIN penalty[c] =
              (0..(self[c].vertexNumber_ - 1)) \X (0..(self[c].vertexNumber_ - 1))
         /\ \A rc \in DOMAIN penalty[c] :
              penalty[c][rc] =
                IF rc[1] = rc[2] /\ rc[1] \in DistinctIds(c)
                  THEN pow10(self[c].logAlpha_)
                  ELSE 0

\* An id given twice, with alpha = 10 at its diagonal entry.
C4_Witness ==
  /\ Assembled(1)
  /\ self[1].logAlpha_ = 1
  /\ \E i, j \in DOMAIN identifiers[1] :
       /\ i # j
       /\ identifiers[1][i] = identifiers[1][j]
       /\ penalty[1][<< identifiers[1][i], identifiers[1][i] >>] = 10

\* C5: with the solver available, a slot of the caller's array is written at
\* most once, by the iteration of its own index, with the negated solution; no
\* slot after the array is written; once the loop has ended every slot has been
\* written, whatever the order of the iterations was.
C5_CopyNegatesEachSlotOnce ==
  \A c \in callers :
    Solved(c)
      => /\ writes[c][self[c].vertexNumber_] = 0
         /\ outputScalarField[c][self[c].vertexNumber_] = 0
         /\ \A i \in 0..(self[c].vertexNumber_ - 1) :
              /\ writes[c][i] <= 1
              /\ writes[c][i] = 1 => outputScalarField[c][i] = -sol[c][i]
              /\ pc[c] = "copy" => (writes[c][i] = 1 <=> i \notin pending[c])
              /\ pc[c] \in {"return", "done"} => writes[c][i] = 1

\* The parallel loop has written slot 1 before slot 0.
C5_Witness ==
  /\ eigenEnabled /\ openmpEnabled
  /\ pc[1] = "copy"
  /\ self[1].vertexNumber_ >= 2
  /\ 0 \in pending[1]
  /\ writes[1][1] = 1
  /\ outputScalarField[1][1] = -sol[1][1]

\* C6: execute returns 0 on every path, whatever the solver's status is.
C6_ReturnsZero ==
  \A c \in callers : pc[c] = "done" => ret[c] = 0

\* A call whose solver reported NoConvergence has returned 0.
C6_Witness ==
  /\ eigenEnabled
  /\ pc[1] = "done"
  /\ res[1] = 2
  /\ ret[1] = 0

\* C7: one call invokes the solver once, with the strategy selected before; a
\* failure status is followed by no second solve; the status is logged before
\* any slot is copied, and the call ends with the solution copied.
C7_SolveOnceThenReport ==
  \A c \in callers :
    eigenEnabled
      => /\ Len(solveLog[c]) <= 1
         /\ Solved(c) => solveLog[c] = << sm[c] >>
         /\ (\E i \in DOMAIN writes[c] : writes[c][i] > 0)
              => /\ Len(msgs[c]) >= 2
                 /\ msgs[c][2] = StatusMessage(res[c])
         /\ pc[c] = "done"
              => /\ msgs[c] = << "Beginnning computation", StatusMessage(res[c]),
                                 "Ending computation" >>
                 /\ \A i \in 0..(self[c].vertexNumber_ - 1) :
                      outputScalarField[c][i] = -sol[c][i]

\* A call whose solver reported NumericalIssue has returned after one solve.
C7_Witness ==
  /\ eigenEnabled
  /\ pc[1] = "done"
  /\ res[1] = 1
  /\ solveLog[1] = << sm[1] >>
  /\ msgs[1][2] = "Numerical Issue!"
  /\ outputScalarField[1][0] = -sol[1][0]

\* A step of the execute call on c (and not of its caller).
ExecuteStep(c) == pc[c] \notin {"idle", "done"} \/ pc'[c] = "begin"

\* C8: with the solver dependency unavailable, execute builds no laplacian,
\* assembles nothing, solves nothing, leaves the thread count and every output
\* slot as they are, logs the warning and returns 0.
C8_GateOffIsNoOp ==
  /\ [](~eigenEnabled =>
          \A c \in callers :
            /\ lap[c] = "none"
            /\ DOMAIN constraints[c] = {}
            /\ DOMAIN penalty[c] = {}
            /\ DOMAIN identifiersVec[c] = {}
            /\ sfRead[c] = {}
            /\ solveLog[c] = << >>
            /\ nbThreads = 0
            /\ \A i \in DOMAIN writes[c] : writes[c][i] = 0
            /\ pc[c] = "done"
                 => /\ msgs[c] = << "Eigen support disabled, computation skipped!" >>
                    /\ ret[c] = 0)
  /\ [][\A c \in callers :
          (~eigenEnabled /\ ExecuteStep(c))
            => UNCHANGED << outputScalarField, nbThreads >>]_vars

\* A call without the solver has returned and the array still holds what the
\* caller put there before.
C8_Witness ==
  /\ ~eigenEnabled
  /\ pc[1] = "done"
  /\ ret[1] = 0
  /\ \A i \in 0..(self[1].vertexNumber_ - 1) : outputScalarField[1][i] \in PoisonValues

\* The calls returned so far on c left the same strategy, constraint vector,
\* penalty matrix and output.
SameResults(c) ==
  \A i, j \in 1..Len(results[c]) : results[c][i] = results[c][j]

\* C9 as stated: no step changes the configuration or the constraint arrays,
\* and successive calls leave the same strategy, constraint vector, penalty
\* matrix and output, whatever the buffer held before.
C9_Original ==
  [][/\ UNCHANGED << self, identifiers, sf >>
     /\ \A c \in callers : SameResults(c)']_vars

\* C9 as amended: the same, for a build with the solver dependency; without it
\* a call leaves the buffer as it found it.
C9_Idempotent ==
  [][/\ UNCHANGED << self, identifiers, sf >>
     /\ \A c \in callers : eigenEnabled => SameResults(c)']_vars

\* Two calls have returned, with the solver available.
C9_Witness ==
  /\ eigenEnabled
  /\ pc[1] = "done"
  /\ Len(results[1]) = 2
  /\ results[1][1] = results[1][2]
  /\ results[1][2].output[0] = -sol[1][0]

\* What belongs to the call on c and to its caller.
Own(c) ==
  << pc[c], outputScalarField[c], writes[c], pending[c], msgs[c], ret[c],
     identifiersVec[c], lap[c], constraints[c], sm[c], penalty[c], res[c],
     sol[c], callCount[c], solveLog[c], solveThreads[c], sfRead[c], results[c],
     self[c], identifiers[c], sf[c] >>

\* C10: the process-wide thread count is that of the call that set it last, and
\* a step changes the output buffer and the other state of one instance only.
C10_ThreadCountLastWriteWins ==
  [][/\ nbThreads' = IF lastSetter' = 0 THEN 0 ELSE self[lastSetter'].threadNumber_
     /\ \A c, d \in Instances :
          (c # d /\ Own(c)' # Own(c)) => Own(d)' = Own(d)]_vars

\* Two calls with different thread counts: one has run its solve under the
\* thread count the other set.
C10_Witness ==
  \E c, d \in callers :
    /\ c # d
    /\ self[c].threadNumber_ # self[d].threadNumber_
    /\ Solved(c)
    /\ lastSetter = d
    /\ nbThreads = self[d].threadNumber_
    /\ solveThreads[c] = self[d].threadNumber_

=============================================================================
